---- MODULE Spec2Model ----
(***************************************************************************)
(* LogoTransition (src/transition.js): one browser tab.  The tab holds the *)
(* per-tab storage slot 'transitionData', a clock, and the current         *)
(* document with the single LogoTransition instance that the               *)
(* DOMContentLoaded listener constructs for it.  Every action is one       *)
(* event-loop task of the script: a whole event handler, or the            *)
(* continuation of an async function up to its next await.  An animation   *)
(* or timer started at time t with duration d delivers its completion      *)
(* signal at time t + d: the clock does not pass a signal that is due, and *)
(* signals due at the same time are delivered in any order.                *)
(***************************************************************************)
EXTENDS Integers, FiniteSets, Sequences, TLC

VARIABLES
    now,            \* Date.now() in ms, counted from the load of the document
    slot,           \* sessionStorage['transitionData']
    page,           \* the document currently loaded in the tab
    pendingNav,     \* target of a window.location.href assignment not yet loaded
    initDone,       \* init() ran to its end (handlers, panel, shortcut installed)
    uncaught,       \* an exception escaped a handler or an async function
    overlay,        \* children of the .transition-overlay host (clone ids)
    transitionLogo, \* this.transitionLogo (NULL or a clone id)
    isTransitioning,\* this.isTransitioning
    debugMode,      \* this.debugMode
    panelVisible,   \* debugPanel.classList contains 'visible'
    bodyClass,      \* document.body.classList contains 'transitioning'
    bodyBg,         \* document.body.style.backgroundColor
    heroOpacity,    \* heroLogo.style.opacity
    heroVisible,    \* heroLogo.classList contains 'visible'
    pageVisible,    \* servicePage.classList contains 'visible'
    tasks,          \* async functions suspended at an await
    nextId,         \* next clone id of this document
    \* ---- history (observations of the run, never read by the program) ----
    seen,           \* kind of value checkIncomingTransition read at load
    seenStale,      \* a record was read and Date.now() - data.timestamp > 3000
    replays,        \* loads that armed a shrink phase since the last slot write
    writes,         \* slot writes made by this document
    dropped,        \* link clicks this document's handler returned from early
    navigated,      \* navigations this document began by assigning location.href
    finished,       \* completeTransition ran to its end in this document
    \* ---- one evaluation of the resolver and the rectangle formulas ----
    geom,           \* its inputs (link, viewport) and the values computed
    \* ---- the links' data-* attributes, which the debug panel rewrites ----
    dataset,        \* link.dataset.scale, .offsetX, .offsetY of each link
    \* ---- history ----
    wrote           \* the record each accepted click of this document stored

vars == <<now, slot, page, pendingNav, initDone, uncaught, overlay,
          transitionLogo, isTransitioning, debugMode, panelVisible, bodyClass,
          bodyBg, heroOpacity, heroVisible, pageVisible, tasks, nextId,
          seen, seenStale, replays, writes, dropped, navigated, finished,
          geom, dataset, wrote>>

\* ------------------------------------------------------------------ bounds
\* MaxTime: the latest time, in a document, at which a load, an accepted click
\* or a preview is followed.  MaxClones: the most async functions in flight
\* at once.  MaxDropped: the most dropped clicks counted in a document.
MaxTime == 3001
MaxClones == 2
MaxDropped == 1

\* The most clones created in a document.
MaxStarts == MaxClones + 1

\* ------------------------------------------------------- program constants
FreshWindow == 3000
DefaultScale == 15
DefaultOffset == 0
DefaultColor == "#6366f1"
LogoSize == 64
ExpandDuration == 800
ShrinkDuration == 600
SettleDelay == 50
FadeDuration == 200
PreviewDuration == 600
PreviewHold == 500

NULL == 0
NoData == [kind |-> "none"]
Corrupt == [kind |-> "corrupt"]
Absent == "<absent>"
NoNav == "none"

\* -------------------------------------------------------------- documents
\* "service" has the hero, the page container and links; "partial" the hero
\* only; "shell" the page container only; "plain" neither.
Pages == {"index", "service", "partial", "shell", "plain"}
Links == {"spotify", "notion"}

HasLinks(p) == p \in {"index", "service"}
HasHero(p) == p \in {"service", "partial"}
HasServicePage(p) == p \in {"service", "shell"}

Href(l) == IF l = "spotify" THEN "service" ELSE "plain"

\* The data-* attributes of the links as written in the markup.
DataColor(l) == IF l = "spotify" THEN "#1DB954" ELSE Absent
DataScale(l) == IF l = "spotify" THEN "25" ELSE "abc"
DataOffsetX(l) == IF l = "spotify" THEN "-30" ELSE Absent
DataOffsetY(l) == IF l = "spotify" THEN "0" ELSE ""

\* The link selected in the debug panel: the first one (line 473).
Selected == {"spotify"}

\* Idle time the user lets pass, in ms (with the 800 ms expand: 3000, 3001).
Deltas == {2200, 2201}

\* --------------------------------------------------------- pure functions
\* parseFloat on the attribute texts above: a number, or NaN.
Num(n) == [nan |-> FALSE, n |-> n]
NaN == [nan |-> TRUE, n |-> 0]

ParseFloat(s) ==
    CASE s = "25" -> Num(25)
      [] s = "15" -> Num(15)
      [] s = "2" -> Num(2)
      [] s = "0" -> Num(0)
      [] s = "-2" -> Num(-2)
      [] s = "-30" -> Num(-30)
      [] OTHER -> NaN

\* Variant of NumberOr: the parsed number or 0, no default.
NumberOrZero(text, dflt) ==
    IF ParseFloat(text).nan THEN 0 ELSE ParseFloat(text).n

\* parseFloat(text) || dflt: NaN and 0 are falsy.
NumberOr(text, dflt) ==
    IF ParseFloat(text).nan \/ ParseFloat(text).n = 0 THEN dflt ELSE ParseFloat(text).n

\* text || dflt: undefined and the empty string are falsy.
StringOr(text, dflt) == IF text \in {Absent, ""} THEN dflt ELSE text

\* A .service-link element: its dataset and the rectangle of its logo wrapper.
Rect(w, h) == [width |-> w, height |-> h]

LinkElement(service, color, scale, offsetX, offsetY, rect) ==
    [service |-> service, color |-> color, scale |-> scale,
     offsetX |-> offsetX, offsetY |-> offsetY, rect |-> rect]

\* The dataset of the links as the document is parsed.
Markup ==
    [l \in Links |-> [scale |-> DataScale(l), offsetX |-> DataOffsetX(l),
                      offsetY |-> DataOffsetY(l)]]

LinkEl(l) ==
    LinkElement(l, DataColor(l), dataset[l].scale, dataset[l].offsetX,
                dataset[l].offsetY, Rect(LogoSize, LogoSize))

\* getServiceData on a link element (lines 68-89).
getServiceDataOf(link) ==
    [serviceName |-> link.service,
     fillColor |-> StringOr(link.color, DefaultColor),
     svgContent |-> link.service,
     rect |-> link.rect,
     scale |-> NumberOr(link.scale, DefaultScale),
     offsetX |-> NumberOr(link.offsetX, DefaultOffset),
     offsetY |-> NumberOr(link.offsetY, DefaultOffset)]

getServiceData(l) == getServiceDataOf(LinkEl(l))

\* The record startTransition serialises into the slot (lines 100-108).
TransitionDataOf(data, t) ==
    [kind |-> "record",
     fillColor |-> data.fillColor,
     serviceName |-> data.serviceName,
     svgContent |-> data.svgContent,
     scale |-> data.scale,
     offsetX |-> data.offsetX,
     offsetY |-> data.offsetY,
     timestamp |-> t]

TransitionData(l, t) == TransitionDataOf(getServiceData(l), t)

\* JSON.stringify and JSON.parse on the record (lines 100, 182): a number is
\* written as its decimal text and read back from it; null reads as NULL.
JSONNumberText(n) ==
    CASE n = 25 -> "25"
      [] n = 15 -> "15"
      [] n = 2 -> "2"
      [] n = 0 -> "0"
      [] n = -2 -> "-2"
      [] n = -30 -> "-30"

JSONTextNumber(text) == IF text = "null" THEN NULL ELSE ParseFloat(text).n

JSONStringify(data) ==
    [kind |-> "json",
     fillColor |-> data.fillColor,
     serviceName |-> data.serviceName,
     svgContent |-> data.svgContent,
     scale |-> JSONNumberText(data.scale),
     offsetX |-> JSONNumberText(data.offsetX),
     offsetY |-> JSONNumberText(data.offsetY),
     timestamp |-> JSONNumberText(data.timestamp)]

JSONParse(json) ==
    [kind |-> "record",
     fillColor |-> json.fillColor,
     serviceName |-> json.serviceName,
     svgContent |-> json.svgContent,
     scale |-> JSONTextNumber(json.scale),
     offsetX |-> JSONTextNumber(json.offsetX),
     offsetY |-> JSONTextNumber(json.offsetY),
     timestamp |-> JSONTextNumber(json.timestamp)]

\* ------------------------------------------------------------- rectangles
\* Lengths are in px.  The viewports, rectangles, scales and offsets drawn
\* below make every quotient of the formulas an integer.
Max(a, b) == IF a >= b THEN a ELSE b
Half(x) == x \div 2
Percent(offset, v) == (offset * v) \div 100

Box(left, top, size) ==
    [left |-> left, top |-> top, width |-> size, height |-> size]

\* Variant of ExpandTarget: the width of the source stands for its larger side.
ExpandTargetByWidth(data, vw, vh) ==
    LET finalSize == data.rect.width * data.scale
    IN Box(Half(vw) - Half(finalSize) + Percent(data.offsetX, vw),
           Half(vh) - Half(finalSize) + Percent(data.offsetY, vh),
           finalSize)

\* Variant of ExpandTarget: the corner, not the centre, is put at the centre
\* of the viewport.
ExpandTargetCornerAnchored(data, vw, vh) ==
    LET finalSize == Max(data.rect.width, data.rect.height) * data.scale
    IN Box(Half(vw) + Percent(data.offsetX, vw),
           Half(vh) + Percent(data.offsetY, vh),
           finalSize)

\* The last keyframe of expandLogo (lines 132-148, 153-170).
ExpandTarget(data, vw, vh) ==
    LET logoSize == Max(data.rect.width, data.rect.height)
        targetScale == data.scale
        finalSize == logoSize * targetScale
        offsetPixelsX == Percent(data.offsetX, vw)
        offsetPixelsY == Percent(data.offsetY, vh)
        centerX == Half(vw) - Half(finalSize) + offsetPixelsX
        centerY == Half(vh) - Half(finalSize) + offsetPixelsY
    IN Box(centerX, centerY, finalSize)

\* Variant of createExpandedOverlay: always the default scale.
createExpandedOverlayDefaultScale(data, vw, vh) ==
    LET expandedSize == LogoSize * DefaultScale
    IN Box(Half(vw) - Half(expandedSize) + Percent(data.offsetX, vw),
           Half(vh) - Half(expandedSize) + Percent(data.offsetY, vh),
           expandedSize)

\* The first keyframe of the shrink animation (lines 254-270), computed by
\* shrinkLogo from the viewport at the time of its call.
shrinkLogo(data, vw, vh) ==
    LET logoSize == LogoSize
        scale == IF data.scale \in {0, NULL} THEN DefaultScale ELSE data.scale
        expandedSize == logoSize * scale
        offsetPixelsX == Percent(IF data.offsetX \in {0, NULL} THEN 0 ELSE data.offsetX, vw)
        offsetPixelsY == Percent(IF data.offsetY \in {0, NULL} THEN 0 ELSE data.offsetY, vh)
        centerX == Half(vw) - Half(expandedSize) + offsetPixelsX
        centerY == Half(vh) - Half(expandedSize) + offsetPixelsY
    IN Box(centerX, centerY, expandedSize)

\* Variant of OverlayScale: a scale that is not positive falls back too.
OverlayScalePositive(data) ==
    IF data.scale <= 0 THEN DefaultScale ELSE data.scale

\* data.scale || this.defaults.scale and x || 0 (lines 233, 237-238) on
\* numbers: 0 and null are falsy.
OverlayScale(data) ==
    IF data.scale \in {0, NULL} THEN DefaultScale ELSE data.scale

OverlayOffset(x) == IF x \in {0, NULL} THEN 0 ELSE x

\* The style rectangle createExpandedOverlay gives the clone (lines 225-248).
createExpandedOverlay(data, vw, vh) ==
    LET logoSize == LogoSize
        scale == OverlayScale(data)
        expandedSize == logoSize * scale
        offsetPixelsX == Percent(OverlayOffset(data.offsetX), vw)
        offsetPixelsY == Percent(OverlayOffset(data.offsetY), vh)
        centerX == Half(vw) - Half(expandedSize) + offsetPixelsX
        centerY == Half(vh) - Half(expandedSize) + offsetPixelsY
    IN Box(centerX, centerY, expandedSize)

IsRecord(v) == v.kind = "record"

\* checkIncomingTransition up to its querySelector calls: what it does to the
\* slot and whether it goes on ("fresh"), returns ("none", "stale") or throws.
\* Variant: the comparison of line 185 written >=.
IncomingStaleAtBoundary(data, t) == t - data.timestamp >= FreshWindow

IncomingStale(data, t) == t - data.timestamp > FreshWindow

IncomingVerdict(v, t) ==
    IF v = NoData THEN "none"
    ELSE IF v = Corrupt THEN "throws"
    ELSE IF IncomingStale(v, t) THEN "stale"
    ELSE "fresh"

\* Variant: the removeItem of line 190 is missing.
SlotKeptWhenFresh(v, t) ==
    IF IncomingVerdict(v, t) = "stale" THEN NoData ELSE v

SlotAfterRead(v, t) ==
    IF IncomingVerdict(v, t) \in {"stale", "fresh"} THEN NoData ELSE v

\* cleanup(): the clone held is detached, the reference and the flag cleared.
CleanupOverlay == IF transitionLogo # NULL THEN overlay \ {transitionLogo} ELSE overlay

\* The record the click that created clone id stored.
Wrote(id, data) == [id |-> id, data |-> data]

\* A navigation begun by the script: the task that assigned location.href and
\* the URL it assigned.
Nav(id, url) == [id |-> id, url |-> url]

\* A suspended async function: the clone it created (its id), which function
\* it is, the await it is suspended at, the link (or incoming record's service)
\* it works for, the element its running animation was started on, and the
\* time at which the animation or timer it awaits completes.
Task(id, kind, pc, link, el, due) ==
    [id |-> id, kind |-> kind, pc |-> pc, link |-> link, el |-> el, due |-> due]

\* The tasks that await a signal still to come (a task whose promise can no
\* longer be resolved awaits none).
Pending == {t \in tasks : t.pc # "stuck"}

\* The signal task t awaits is due.
Due(t) == t.pc # "stuck" /\ t.due <= now

\* ------------------------------------------------ document load (lines 613-615)
\* new LogoTransition(): constructor, then init().  createOverlay, then
\* checkIncomingTransition, which may throw out of init() before the click
\* handlers, the debug panel and the keyboard shortcut are installed.
\* Arms without the test of line 195.
ArmsWithoutMarkers(p, v, t) ==
    IncomingVerdict(v, t) = "fresh"

Arms(p, v, t) ==
    IncomingVerdict(v, t) = "fresh" /\ HasServicePage(p) /\ HasHero(p)

Construct(p, v, t) ==
    /\ page' = p
    /\ dataset' = Markup
    /\ wrote' = {}
    /\ pendingNav' = NoNav
    /\ seen' = v.kind
    /\ seenStale' = (IsRecord(v) /\ t - v.timestamp > 3000)
    /\ slot' = SlotAfterRead(v, t)
    /\ initDone' = (IncomingVerdict(v, t) # "throws")
    /\ uncaught' = (IncomingVerdict(v, t) = "throws")
    /\ isTransitioning' = FALSE
    /\ debugMode' = FALSE
    /\ panelVisible' = FALSE
    /\ heroVisible' = FALSE
    /\ pageVisible' = FALSE
    /\ writes' = 0
    /\ dropped' = 0
    /\ navigated' = {}
    /\ finished' = FALSE
    /\ IF Arms(p, v, t)
       THEN \* completeTransition up to its first await
            /\ bodyClass' = TRUE
            /\ bodyBg' = v.fillColor
            /\ heroOpacity' = "0"
            /\ overlay' = {1}
            /\ transitionLogo' = 1
            /\ tasks' = {Task(1, "complete", "delay", v.serviceName, 1, SettleDelay)}
            /\ nextId' = 2
            /\ replays' = IF replays < 2 THEN replays + 1 ELSE replays
       ELSE /\ bodyClass' = FALSE
            /\ bodyBg' = ""
            /\ heroOpacity' = ""
            /\ overlay' = {}
            /\ transitionLogo' = NULL
            /\ tasks' = {}
            /\ nextId' = 1
            /\ replays' = replays

\* ------------------------------------------------------------------- Init
InitDocument ==
    /\ now = 0
    /\ slot \in {NoData, Corrupt}
    /\ page = "index"
    /\ pendingNav = NoNav
    /\ initDone = (IncomingVerdict(slot, now) # "throws")
    /\ uncaught = (IncomingVerdict(slot, now) = "throws")
    /\ overlay = {}
    /\ transitionLogo = NULL
    /\ isTransitioning = FALSE
    /\ debugMode = FALSE
    /\ panelVisible = FALSE
    /\ bodyClass = FALSE
    /\ bodyBg = ""
    /\ heroOpacity = ""
    /\ heroVisible = FALSE
    /\ pageVisible = FALSE
    /\ tasks = {}
    /\ nextId = 1
    /\ seen = slot.kind
    /\ seenStale = FALSE
    /\ replays = 0
    /\ writes = 0
    /\ dropped = 0
    /\ navigated = {}
    /\ finished = FALSE
    /\ dataset = Markup
    /\ wrote = {}

\* No evaluation of the formulas is followed.
GeomIdle == [stage |-> "idle"]

Init ==
    /\ InitDocument
    /\ geom = GeomIdle

\* ---------------------------------------------------------------- actions
\* The clock advances by d: to the next signal due while signals are pending
\* (never past one), or by an idle step while none is.
TickSteps == Deltas \cup {t.due - now : t \in Pending}

Tick(d) ==
    /\ d > 0
    /\ \A t \in Pending : now + d <= t.due
    /\ \/ Pending = {} /\ d \in Deltas /\ now + d <= MaxTime
       \/ \E t \in Pending : now + d = t.due
    /\ now' = now + d
    /\ UNCHANGED <<geom, dataset, wrote, slot, page, pendingNav, initDone, uncaught, overlay,
                   transitionLogo, isTransitioning, debugMode, panelVisible,
                   bodyClass, bodyBg, heroOpacity, heroVisible, pageVisible,
                   tasks, nextId, seen, seenStale, replays, writes, dropped,
                   navigated, finished>>

\* A document is loaded into the tab: the target of a pending navigation, or
\* any page the user opens or reloads.  DOMContentLoaded constructs the
\* orchestrator of the new document.  The record the document finds is read
\* (and removed) by this step, so time is counted anew from it.
Load(p) ==
    /\ now <= MaxTime
    /\ pendingNav # NoNav => p = pendingNav
    /\ Construct(p, slot, now)
    /\ now' = 0
    /\ UNCHANGED geom

\* Variant: the handler has no in-flight guard.
DroppedNever == FALSE

\* The early return of the click handler (line 58).
Dropped == isTransitioning

\* Variant: expandLogo is not awaited; location.href is assigned at once.
NoAwaitExpand(l, id) ==
    /\ tasks' = tasks
    /\ pendingNav' = Href(l)
    /\ navigated' = navigated \cup {Nav(id, Href(l))}

\* await this.expandLogo(serviceData): startTransition is suspended until the
\* animation started on the new clone finishes.
AwaitExpand(l, id) ==
    /\ tasks' = tasks \cup {Task(id, "start", "expand", l, id, now + ExpandDuration)}
    /\ UNCHANGED <<pendingNav, navigated>>

\* startTransition up to its await (lines 91-111), createTransitionLogo and
\* the synchronous part of expandLogo included.
startTransition(l) ==
    /\ nextId <= MaxStarts
    /\ Cardinality(Pending) < MaxClones
    /\ now <= MaxTime
    /\ isTransitioning' = TRUE
    /\ bodyClass' = TRUE
    /\ bodyBg' = getServiceData(l).fillColor
    /\ slot' = TransitionData(l, now)
    /\ writes' = writes + 1
    /\ wrote' = wrote \cup {Wrote(nextId, TransitionData(l, now))}
    /\ replays' = 0
    \* createTransitionLogo, then expandLogo up to its promise
    /\ transitionLogo' = nextId
    /\ overlay' = overlay \cup {nextId}
    /\ AwaitExpand(l, nextId)
    /\ nextId' = nextId + 1
    /\ UNCHANGED <<geom, dataset, now, page, initDone, uncaught, debugMode, panelVisible,
                   heroOpacity, heroVisible, pageVisible, seen, seenStale,
                   dropped, finished>>

\* The click handler of a transition-enabled link (lines 56-64).
Click(l) ==
    /\ initDone
    /\ HasLinks(page)
    /\ \/ /\ Dropped
          /\ dropped < MaxDropped
          /\ dropped' = dropped + 1
          /\ UNCHANGED <<geom, dataset, wrote, now, slot, page, pendingNav, initDone, uncaught,
                         overlay, transitionLogo, isTransitioning, debugMode,
                         panelVisible, bodyClass, bodyBg, heroOpacity,
                         heroVisible, pageVisible, tasks, nextId, seen,
                         seenStale, replays, writes, navigated, finished>>
       \/ /\ ~Dropped
          /\ startTransition(l)

\* Variant: the assignment of line 112 is missing.
NavigateForgotten(t) == UNCHANGED <<pendingNav, navigated>>

\* window.location.href = targetUrl (line 112).
Navigate(t) ==
    /\ pendingNav' = Href(t.link)
    /\ navigated' = navigated \cup {Nav(t.id, Href(t.link))}

\* The expand animation of a click finishes: expandLogo resolves and
\* startTransition assigns window.location.href (lines 111-112, 173).
ExpandFinish(t) ==
    /\ t.kind = "start"
    /\ t.pc = "expand"
    /\ Due(t)
    /\ tasks' = tasks \ {t}
    /\ Navigate(t)
    /\ UNCHANGED <<geom, dataset, wrote, now, slot, page, initDone, uncaught, overlay,
                   transitionLogo, isTransitioning, debugMode, panelVisible,
                   bodyClass, bodyBg, heroOpacity, heroVisible, pageVisible,
                   nextId, seen, seenStale, replays, writes, dropped, finished>>

\* The settle delay of completeTransition elapses (lines 208-211): the hero
\* rectangle is measured and shrinkLogo starts the shrink animation on the
\* clone this.transitionLogo refers to at that moment.  With the reference
\* null the call throws inside the promise executor and completeTransition
\* rejects.
\* SettleDone without the await of the 50 ms delay (line 208).
SettleDoneAtOnce(t) ==
    /\ t.kind = "complete"
    /\ t.pc = "delay"
    /\ tasks' = (tasks \ {t}) \cup
                 {Task(t.id, "complete", "shrink", t.link, transitionLogo,
                       now + ShrinkDuration)}
    /\ UNCHANGED <<geom, dataset, wrote, now, slot, page, pendingNav, initDone, uncaught,
                   overlay, transitionLogo, isTransitioning, debugMode,
                   panelVisible, bodyClass, bodyBg, heroOpacity, heroVisible,
                   pageVisible, nextId, seen, seenStale, replays, writes,
                   dropped, navigated, finished>>

SettleDone(t) ==
    /\ t.kind = "complete"
    /\ t.pc = "delay"
    /\ Due(t)
    /\ IF transitionLogo = NULL
       THEN /\ tasks' = tasks \ {t}
            /\ uncaught' = TRUE
       ELSE /\ tasks' = (tasks \ {t}) \cup
                        {Task(t.id, "complete", "shrink", t.link, transitionLogo,
                              now + ShrinkDuration)}
            /\ UNCHANGED uncaught
    /\ UNCHANGED <<geom, dataset, wrote, now, slot, page, pendingNav, initDone, overlay,
                   transitionLogo, isTransitioning, debugMode, panelVisible,
                   bodyClass, bodyBg, heroOpacity, heroVisible, pageVisible,
                   nextId, seen, seenStale, replays, writes, dropped, navigated,
                   finished>>

\* The shrink animation finishes (lines 289-297): its onfinish handler starts
\* the fade on this.transitionLogo.  With the reference null the handler
\* throws and the promise of shrinkLogo is never resolved.
ShrinkFinish(t) ==
    /\ t.kind = "complete"
    /\ t.pc = "shrink"
    /\ Due(t)
    /\ IF transitionLogo = NULL
       THEN /\ tasks' = (tasks \ {t}) \cup
                        {Task(t.id, "complete", "stuck", t.link, NULL, 0)}
            /\ uncaught' = TRUE
       ELSE /\ tasks' = (tasks \ {t}) \cup
                        {Task(t.id, "complete", "fade", t.link, transitionLogo,
                              now + FadeDuration)}
            /\ UNCHANGED uncaught
    /\ UNCHANGED <<geom, dataset, wrote, now, slot, page, pendingNav, initDone, overlay,
                   transitionLogo, isTransitioning, debugMode, panelVisible,
                   bodyClass, bodyBg, heroOpacity, heroVisible, pageVisible,
                   nextId, seen, seenStale, replays, writes, dropped, navigated,
                   finished>>

\* FadeFinish without the reveal of lines 213-215.
FadeFinishLeavesHidden(t) ==
    /\ t.kind = "complete"
    /\ t.pc = "fade"
    /\ Due(t)
    /\ tasks' = tasks \ {t}
    /\ bodyBg' = ""
    /\ overlay' = CleanupOverlay
    /\ transitionLogo' = NULL
    /\ isTransitioning' = FALSE
    /\ bodyClass' = FALSE
    /\ finished' = TRUE
    /\ UNCHANGED <<geom, dataset, wrote, now, slot, page, pendingNav, initDone, uncaught, debugMode,
                   panelVisible, heroVisible, heroOpacity, pageVisible, nextId,
                   seen, seenStale, replays, writes, dropped, navigated>>

\* The fade finishes: shrinkLogo resolves and completeTransition runs to its
\* end (lines 213-221).
FadeFinish(t) ==
    /\ t.kind = "complete"
    /\ t.pc = "fade"
    /\ Due(t)
    /\ tasks' = tasks \ {t}
    /\ heroVisible' = TRUE
    /\ heroOpacity' = ""
    /\ pageVisible' = TRUE
    /\ bodyBg' = ""
    /\ overlay' = CleanupOverlay
    /\ transitionLogo' = NULL
    /\ isTransitioning' = FALSE
    /\ bodyClass' = FALSE
    /\ finished' = TRUE
    /\ UNCHANGED <<geom, dataset, wrote, now, slot, page, pendingNav, initDone, uncaught, debugMode,
                   panelVisible, nextId, seen, seenStale, replays, writes,
                   dropped, navigated>>

\* An element that can hold the focus: its tagName, whether text is typed
\* into it, and whether it is a control of the debug panel.
Element(tagName, text, inPanel) ==
    [tagName |-> tagName, text |-> text, inPanel |-> inPanel]

\* The keydown handler (lines 588-596) for the key 'd' without ctrl/meta,
\* dispatched on the element that holds the focus; a control of the debug
\* panel holds it only while the panel is displayed.
KeyD(el) ==
    /\ initDone
    /\ el.inPanel => panelVisible
    /\ IF el.tagName \in {"INPUT", "TEXTAREA"}
       THEN UNCHANGED <<debugMode, panelVisible>>
       ELSE /\ debugMode' = ~debugMode
            /\ panelVisible' = ~debugMode
    /\ UNCHANGED <<geom, dataset, wrote, now, slot, page, pendingNav, initDone, uncaught, overlay,
                   transitionLogo, isTransitioning, bodyClass, bodyBg,
                   heroOpacity, heroVisible, pageVisible, tasks, nextId, seen,
                   seenStale, replays, writes, dropped, navigated, finished>>

\* Preview that stores the handoff record as startTransition does.
PreviewWritingSlot(l) ==
    /\ initDone
    /\ HasLinks(page)
    /\ panelVisible
    /\ nextId <= MaxStarts
    /\ Cardinality(Pending) < MaxClones
    /\ now <= MaxTime
    /\ slot' = TransitionData(l, now)
    /\ transitionLogo' = nextId
    /\ overlay' = overlay \cup {nextId}
    /\ bodyClass' = TRUE
    /\ bodyBg' = getServiceData(l).fillColor
    /\ tasks' = tasks \cup {Task(nextId, "preview", "expand", l, nextId,
                                 now + PreviewDuration)}
    /\ nextId' = nextId + 1
    /\ UNCHANGED <<geom, dataset, wrote, now, page, pendingNav, initDone, uncaught,
                   isTransitioning, debugMode, panelVisible, heroOpacity,
                   heroVisible, pageVisible, seen, seenStale, replays, writes,
                   dropped, navigated, finished>>

\* The Preview button of the debug panel (lines 491-494, 527-552).  The panel
\* is displayed only with the class 'visible'; its handlers exist only in a
\* document with transition-enabled links (line 461).
Preview(l) ==
    /\ initDone
    /\ HasLinks(page)
    /\ panelVisible
    /\ nextId <= MaxStarts
    /\ Cardinality(Pending) < MaxClones
    /\ now <= MaxTime
    /\ transitionLogo' = nextId
    /\ overlay' = overlay \cup {nextId}
    /\ bodyClass' = TRUE
    /\ bodyBg' = getServiceData(l).fillColor
    /\ tasks' = tasks \cup {Task(nextId, "preview", "expand", l, nextId,
                                 now + PreviewDuration)}
    /\ nextId' = nextId + 1
    /\ UNCHANGED <<geom, dataset, wrote, now, slot, page, pendingNav, initDone, uncaught,
                   isTransitioning, debugMode, panelVisible, heroOpacity,
                   heroVisible, pageVisible, seen, seenStale, replays, writes,
                   dropped, navigated, finished>>

\* A slider of the debug panel is moved to value v (lines 483-486):
\* updateLogoSettings (lines 516-525) writes the three slider values to the
\* dataset of the selected link.  The sliders were set from that link by
\* loadLogoSettings (line 473) and are changed by this handler only, so the
\* other two values written are those the dataset holds.
SliderValues ==
    [scale |-> {"15"}, offsetX |-> {"25"}, offsetY |-> {"25"}]

updateLogoSettings(l, param, v) ==
    [dataset EXCEPT ![l] = [@ EXCEPT ![param] = v]]

SliderInput(l, param, v) ==
    /\ initDone
    /\ HasLinks(page)
    /\ panelVisible
    /\ dataset' = updateLogoSettings(l, param, v)
    /\ UNCHANGED <<geom, wrote, now, slot, page, pendingNav, initDone,
                   uncaught, overlay, transitionLogo, isTransitioning,
                   debugMode, panelVisible, bodyClass, bodyBg, heroOpacity,
                   heroVisible, pageVisible, tasks, nextId, seen, seenStale,
                   replays, writes, dropped, navigated, finished>>

SliderStep ==
    \E l \in Selected : \E param \in DOMAIN SliderValues :
        \E v \in SliderValues[param] : SliderInput(l, param, v)

\* The expand animation of a preview finishes; the preview holds (line 556).
PreviewExpandFinish(t) ==
    /\ t.kind = "preview"
    /\ t.pc = "expand"
    /\ Due(t)
    /\ tasks' = (tasks \ {t}) \cup
                 {Task(t.id, "preview", "hold", t.link, NULL, now + PreviewHold)}
    /\ UNCHANGED <<geom, dataset, wrote, now, slot, page, pendingNav, initDone, uncaught, overlay,
                   transitionLogo, isTransitioning, debugMode, panelVisible,
                   bodyClass, bodyBg, heroOpacity, heroVisible, pageVisible,
                   nextId, seen, seenStale, replays, writes, dropped, navigated,
                   finished>>

\* The hold delay elapses: the shrink-back animation is started on
\* this.transitionLogo (lines 559-564); with the reference null the call
\* throws inside the promise executor and previewTransition rejects.
PreviewHoldDone(t) ==
    /\ t.kind = "preview"
    /\ t.pc = "hold"
    /\ Due(t)
    /\ IF transitionLogo = NULL
       THEN /\ tasks' = tasks \ {t}
            /\ uncaught' = TRUE
       ELSE /\ tasks' = (tasks \ {t}) \cup
                        {Task(t.id, "preview", "shrink", t.link, transitionLogo,
                              now + PreviewDuration)}
            /\ UNCHANGED uncaught
    /\ UNCHANGED <<geom, dataset, wrote, now, slot, page, pendingNav, initDone, overlay,
                   transitionLogo, isTransitioning, debugMode, panelVisible,
                   bodyClass, bodyBg, heroOpacity, heroVisible, pageVisible,
                   nextId, seen, seenStale, replays, writes, dropped, navigated,
                   finished>>

\* The shrink-back animation finishes: the preview cleans up (lines 566-568).
PreviewShrinkFinish(t) ==
    /\ t.kind = "preview"
    /\ t.pc = "shrink"
    /\ Due(t)
    /\ tasks' = tasks \ {t}
    /\ overlay' = CleanupOverlay
    /\ transitionLogo' = NULL
    /\ isTransitioning' = FALSE
    /\ bodyBg' = ""
    /\ bodyClass' = FALSE
    /\ UNCHANGED <<geom, dataset, wrote, now, slot, page, pendingNav, initDone, uncaught, debugMode,
                   panelVisible, heroOpacity, heroVisible, pageVisible, nextId,
                   seen, seenStale, replays, writes, dropped, navigated, finished>>

\* The body, a text field and a textarea of the page, and the range sliders
\* (lines 318-326) and the select (line 314) of the debug panel.
KeyTargets ==
    {Element("BODY", FALSE, FALSE),
     Element("INPUT", TRUE, FALSE),
     Element("TEXTAREA", TRUE, FALSE),
     Element("INPUT", FALSE, TRUE),
     Element("SELECT", FALSE, TRUE)}

Next ==
    \/ \E d \in TickSteps : Tick(d)
    \/ \E p \in Pages : Load(p)
    \/ \E l \in Links : Click(l)
    \/ \E t \in tasks : ExpandFinish(t)
    \/ \E t \in tasks : SettleDone(t)
    \/ \E t \in tasks : ShrinkFinish(t)
    \/ \E t \in tasks : FadeFinish(t)
    \/ \E el \in KeyTargets : KeyD(el)
    \/ \E l \in Selected : Preview(l)
    \/ \E t \in tasks : PreviewExpandFinish(t)
    \/ \E t \in tasks : PreviewHoldDone(t)
    \/ \E t \in tasks : PreviewShrinkFinish(t)

Spec == Init /\ [][Next]_vars

\* One origin document from its load on: no further document is loaded.
Signal(t) ==
    \/ ExpandFinish(t)
    \/ PreviewExpandFinish(t)
    \/ PreviewHoldDone(t)
    \/ PreviewShrinkFinish(t)

NextOrigin ==
    \/ \E d \in TickSteps : Tick(d)
    \/ \E l \in Links : Click(l)
    \/ \E el \in KeyTargets : KeyD(el)
    \/ \E l \in Selected : Preview(l)
    \/ \E t \in tasks : Signal(t)

SpecOrigin == Init /\ [][NextOrigin]_vars

\* The origin document with the sliders of its debug panel in use.
NextTuning ==
    \/ NextOrigin
    \/ SliderStep

SpecTuning == Init /\ [][NextTuning]_vars

\* The same, with every started animation and timer eventually delivering its
\* completion signal to the function awaiting it.
SpecLive ==
    /\ Init
    /\ [][NextOrigin]_vars
    /\ WF_vars(\E t \in Pending : Tick(t.due - now))
    /\ \A i \in 1..MaxStarts :
          WF_vars(\E t \in tasks : t.id = i /\ Signal(t))

\* ------------------------------------------- one evaluation of the formulas
\* The attribute texts, logo rectangles and viewports (innerWidth,
\* innerHeight) the evaluation is followed for.
ColorTexts == {Absent, "", "#1DB954"}
ScaleTexts == {Absent, "", "abc", "0", "-2", "2", "15", "25"}
OffsetTexts == {Absent, "", "abc", "0", "-30", "25"}
Rects == {Rect(64, 64), Rect(80, 48), Rect(48, 80)}
Viewports == {<<1920, 1080>>, <<800, 1000>>}

NoBox == Box(0, 0, 0)

GeomInputs ==
    {[stage |-> "link",
      link |-> LinkElement("probe", c, sc, ox, oy, r),
      vw |-> vp[1], vh |-> vp[2],
      data |-> NoData, target |-> NoBox, stored |-> NoData, json |-> NoData,
      read |-> NoData, clone |-> NoBox, from |-> NoBox] :
        c \in ColorTexts, sc \in ScaleTexts, ox \in OffsetTexts,
        oy \in OffsetTexts, r \in Rects, vp \in Viewports}

docVars == <<now, slot, page, pendingNav, initDone, uncaught, overlay,
             transitionLogo, isTransitioning, debugMode, panelVisible,
             bodyClass, bodyBg, heroOpacity, heroVisible, pageVisible, tasks,
             nextId, seen, seenStale, replays, writes, dropped, navigated,
             finished, dataset, wrote>>

InitGeometry ==
    /\ InitDocument
    /\ slot = NoData
    /\ geom \in GeomInputs

\* The click handler calls getServiceData on the link (line 61).
GeomResolve ==
    /\ geom.stage = "link"
    /\ geom' = [geom EXCEPT !.stage = "data",
                            !.data = getServiceDataOf(geom.link)]
    /\ UNCHANGED docVars

\* startTransition serialises the record (lines 100-108).
GeomStore ==
    /\ geom.stage = "data"
    /\ geom' = [geom EXCEPT !.stage = "stored",
                            !.stored = TransitionDataOf(geom.data, now),
                            !.json = JSONStringify(TransitionDataOf(geom.data, now))]
    /\ UNCHANGED docVars

\* expandLogo computes its last keyframe in the origin's viewport.
GeomExpand ==
    /\ geom.stage = "stored"
    /\ geom' = [geom EXCEPT !.stage = "expanded",
                            !.target = ExpandTarget(geom.data, geom.vw, geom.vh)]
    /\ UNCHANGED docVars

\* The destination parses the item (line 182) and createExpandedOverlay
\* places the clone in the destination's viewport.
GeomOverlay(vp) ==
    /\ geom.stage = "expanded"
    /\ geom' = [geom EXCEPT !.stage = "placed",
                            !.vw = vp[1], !.vh = vp[2],
                            !.read = JSONParse(geom.json),
                            !.clone = createExpandedOverlay(JSONParse(geom.json),
                                                            vp[1], vp[2])]
    /\ UNCHANGED docVars

\* The 50 ms delay passes (line 208), the window having the size vp at its
\* end, and shrinkLogo computes the keyframes of the shrink (line 211).
GeomShrink(vp) ==
    /\ geom.stage = "placed"
    /\ geom' = [geom EXCEPT !.stage = "shrinking",
                            !.vw = vp[1], !.vh = vp[2],
                            !.from = shrinkLogo(geom.read, vp[1], vp[2])]
    /\ UNCHANGED docVars

NextGeometry ==
    \/ GeomResolve
    \/ GeomStore
    \/ GeomExpand
    \/ \E vp \in Viewports : GeomOverlay(vp)
    \/ \E vp \in Viewports : GeomShrink(vp)

SpecGeometry == InitGeometry /\ [][NextGeometry]_vars

\* One handoff: the origin document navigates by script to the document of
\* the clicked link, and that document stays in the tab; every signal of a
\* started animation or timer is eventually delivered.
Arrive(p) ==
    /\ page = "index"
    /\ pendingNav # NoNav
    /\ Load(p)

ShrinkSignal(t) ==
    \/ SettleDone(t)
    \/ ShrinkFinish(t)
    \/ FadeFinish(t)

NextArrive ==
    \/ \E d \in TickSteps : Tick(d)
    \/ \E p \in Pages : Arrive(p)
    \/ \E l \in Links : Click(l)
    \/ \E el \in KeyTargets : KeyD(el)
    \/ \E l \in Selected : Preview(l)
    \/ \E t \in tasks : Signal(t)
    \/ \E t \in tasks : ShrinkSignal(t)

SpecArrive ==
    /\ Init
    /\ [][NextArrive]_vars
    /\ WF_vars(\E t \in Pending : Tick(t.due - now))
    /\ \A i \in 1..MaxStarts :
          WF_vars(\E t \in tasks : t.id = i /\ (Signal(t) \/ ShrinkSignal(t)))

\* ------------------------------------------------------------------ claims
LoadStep == \E p \in Pages : Load(p)
ClickStep == \E l \in Links : Click(l)
CompleteTasks == {t \in tasks : t.kind = "complete"}
StartTasks == {t \in tasks : t.kind = "start"}

\* C1: a record written by one click is replayed at most once: of the loads
\* that follow one slot write at most one arms the shrink phase; a load that
\* finds a record leaves the slot empty; a load that finds the slot empty
\* arms nothing, raises no error and completes initialisation.
C1_ReplayedAtMostOnce ==
    /\ [](replays <= 1)
    /\ [][LoadStep /\ IsRecord(slot) => slot' = NoData /\ ~uncaught']_vars
    /\ [][LoadStep /\ slot = NoData =>
            slot' = NoData /\ tasks' = {} /\ initDone' /\ ~uncaught']_vars

\* C1 witness: after a load that armed the shrink phase, a further load found
\* the slot empty.
C1_Witness ==
    replays = 1 /\ seen = "none" /\ slot = NoData /\ initDone /\ tasks = {}

\* C2: at load with a well-formed record, the shrink phase arms only if
\* now - timestamp <= 3000, and an age of exactly 3000 is fresh (it arms when
\* the hero and the page container exist); with an age > 3000 nothing arms,
\* the hero is never hidden in that document, and the slot is empty after
\* the load.
C2_FreshWindow ==
    /\ [][LoadStep /\ IsRecord(slot) =>
            /\ (CompleteTasks' # {} => now - slot.timestamp <= 3000)
            /\ (now - slot.timestamp <= 3000 /\ HasHero(page') /\ HasServicePage(page')
                  => CompleteTasks' # {} /\ heroOpacity' = "0")
            /\ (now - slot.timestamp > 3000
                  => slot' = NoData /\ CompleteTasks' = {} /\ heroOpacity' = "")
         ]_vars
    /\ [](seen = "record" /\ seenStale
            => heroOpacity = "" /\ CompleteTasks = {} /\ ~finished)

\* C2 witness: a document with hero and page container was loaded with a
\* record older than 3000 ms.
C2_Witness ==
    seen = "record" /\ seenStale /\ page = "service" /\ slot = NoData

\* C3: malformed data in the slot at load is treated as absent: the slot is
\* cleared, nothing arms, no error is raised and initialisation completes.
C3_CorruptTreatedAsAbsent ==
    seen = "corrupt" => slot = NoData /\ ~uncaught /\ initDone /\ tasks = {}

\* C4: a click on a transition-enabled link while isTransitioning is true is
\* dropped: no clone, no slot write, no navigation, nothing queued; a
\* transition starts only in the step of a click made while the flag is false.
C4_ClickDroppedWhileInFlight ==
    /\ [][ClickStep /\ isTransitioning =>
            UNCHANGED <<slot, overlay, transitionLogo, tasks, nextId, writes,
                        pendingNav, navigated>>]_vars
    /\ [][StartTasks' \ StartTasks # {} =>
            ~isTransitioning /\ ClickStep /\ dropped' = dropped]_vars

\* C4 witness: a click was dropped during the expand of an accepted click.
C4_Witness ==
    /\ dropped = 1
    /\ isTransitioning
    /\ writes = 1
    /\ Cardinality(overlay) = 1
    /\ Cardinality(StartTasks) = 1

\* C5: once a click has been accepted, no second click is accepted in that
\* document (no second slot write), and the in-flight flag stays true until
\* the document is unloaded.
C5_OneAcceptedClickPerDocument ==
    writes <= 1 /\ (writes >= 1 => isTransitioning)

\* C6: the overlay host holds at most one OverlayClone.
C6_AtMostOneClone == Cardinality(overlay) <= 1

\* C7: isTransitioning is true exactly when the orchestrator holds a clone.
C7_FlagBracketsClone == isTransitioning <=> transitionLogo # NULL

\* C8: navigation to a link's URL begins only in the step in which the expand
\* animation started by a click on that link delivers its completion signal;
\* the click handler itself, accepting or dropping, never navigates.
NavBegins ==
    /\ pendingNav' # NoNav
    /\ pendingNav' # pendingNav \/ navigated' # navigated

C8_NavigateOnlyAfterExpand ==
    /\ [][NavBegins =>
            \E t \in StartTasks :
                /\ t.pc = "expand"
                /\ t \notin tasks'
                /\ Nav(t.id, Href(t.link)) \notin navigated
                /\ navigated' = navigated \cup {Nav(t.id, Href(t.link))}
                /\ pendingNav' = Href(t.link)]_vars
    /\ [][ClickStep => pendingNav' = pendingNav /\ navigated' = navigated]_vars

\* C8 witness: an expand finished and navigation to the link's href began.
C8_Witness ==
    navigated # {} /\ pendingNav = "service" /\ page = "index" /\ writes = 1

\* C9: every accepted click eventually navigates to its link's href, given
\* that every started animation and timer delivers its completion signal.
C9_AcceptedClickNavigates ==
    \A i \in 1..MaxStarts : \A l \in Links :
        (\E t \in StartTasks : t.id = i /\ t.link = l)
            ~> (Nav(i, Href(l)) \in navigated)

\* C9 witness: a click navigated although the cleanup of an interleaved
\* preview had detached its clone and cleared the flag.
C9_Witness ==
    /\ navigated # {}
    /\ pendingNav # NoNav
    /\ writes = 1
    /\ ~isTransitioning
    /\ transitionLogo = NULL

\* C10: when an armed shrink phase completes, the hero is visible with its
\* forced opacity cleared, the page container is visible, the background is
\* restored, the overlay host is empty, the clone reference is null and
\* isTransitioning is false.
C10_ShrinkCompletesClean ==
    [][~finished /\ finished' =>
        /\ heroVisible'
        /\ heroOpacity' = ""
        /\ pageVisible'
        /\ bodyBg' = ""
        /\ overlay' = {}
        /\ transitionLogo' = NULL
        /\ ~isTransitioning']_vars

\* C11: a hero element hidden by the shrink phase (inline opacity '0') is
\* eventually revealed again (inline opacity cleared), given that the signals
\* of timers and animations are delivered.
C11_HeroEventuallyRevealed ==
    (heroOpacity = "0") ~> (heroOpacity = "" /\ heroVisible)

\* C11 witness: the shrink phase ran to its end and revealed the hero although
\* a link was clicked in the destination document while the hero was hidden.
C11_Witness ==
    /\ finished
    /\ heroOpacity = ""
    /\ heroVisible
    /\ writes = 1
    /\ page = "service"

\* C12: a load that finds a fresh record (at most 3000 ms old) in a document
\* without the hero element or without the page container arms no shrink
\* phase: hero and page stay as loaded, the body gets no class and no
\* background, no clone is created, nothing is queued, nothing is thrown, and
\* the slot is empty after the load.
C12_NoArmWithoutMarkers ==
    [][\A p \in Pages :
          /\ Load(p)
          /\ IsRecord(slot)
          /\ now - slot.timestamp <= 3000
          /\ ~(HasHero(p) /\ HasServicePage(p))
          => /\ slot' = NoData
             /\ heroOpacity' = ""
             /\ ~heroVisible'
             /\ ~pageVisible'
             /\ ~bodyClass'
             /\ bodyBg' = ""
             /\ overlay' = {}
             /\ transitionLogo' = NULL
             /\ tasks' = {}
             /\ initDone'
             /\ ~uncaught']_vars

\* C12 witness: a document with the page container but no hero was loaded
\* with a fresh record and consumed it.
C12_Witness ==
    /\ page = "shell"
    /\ seen = "record"
    /\ ~seenStale
    /\ slot = NoData
    /\ tasks = {}
    /\ initDone

\* C13: no step of a preview run (its start, the end of its expand, of its
\* hold and of its shrink-back) changes the slot or begins a navigation,
\* whatever the slot holds and whatever other tasks are in flight.
PreviewStep ==
    \/ \E l \in Selected : Preview(l)
    \/ \E t \in tasks : PreviewExpandFinish(t)
    \/ \E t \in tasks : PreviewHoldDone(t)
    \/ \E t \in tasks : PreviewShrinkFinish(t)

C13_PreviewLeavesSlotAndLocation ==
    [][PreviewStep => UNCHANGED <<slot, pendingNav, navigated, writes>>]_vars

\* C13 witness: a preview is in its shrink-back while the slot holds the
\* record of a click accepted in the same document.
C13_Witness ==
    /\ \E t \in tasks : t.kind = "preview" /\ t.pc = "shrink"
    /\ IsRecord(slot)
    /\ writes = 1

\* C19: the steps of an armed shrink phase come in one order.  The load
\* consumes the slot, hides the hero and inserts the clone before the 50 ms
\* timer is awaited; the hero is measured and the shrink started only once
\* that timer is due; the fade is started only once the shrink (600 ms) is
\* due; hero and page are revealed only by the step that takes the fade's
\* completion signal (200 ms), which ends the phase.
ShrinkPhase ==
    IF CompleteTasks = {} THEN "none" ELSE (CHOOSE t \in CompleteTasks : TRUE).pc

ShrinkPhaseDue == (CHOOSE t \in CompleteTasks : TRUE).due

C19_ShrinkPhaseOrder ==
    /\ [](Cardinality(CompleteTasks) <= 1)
    /\ [](ShrinkPhase # "none" =>
            /\ seen = "record"
            /\ heroOpacity = "0"
            /\ ~heroVisible
            /\ ~pageVisible
            /\ ~finished
            /\ 1 \in overlay)
    /\ [][LoadStep /\ ShrinkPhase' # "none" =>
            /\ IsRecord(slot)
            /\ slot' = NoData
            /\ ShrinkPhase' = "delay"
            /\ now' = 0
            /\ ShrinkPhaseDue' = 50]_vars
    /\ [][~LoadStep /\ ShrinkPhase' # ShrinkPhase =>
            \/ /\ ShrinkPhase = "delay"
               /\ ShrinkPhase' = "shrink"
               /\ now >= ShrinkPhaseDue
               /\ ShrinkPhaseDue' = now + 600
            \/ /\ ShrinkPhase = "shrink"
               /\ ShrinkPhase' = "fade"
               /\ now >= ShrinkPhaseDue
               /\ ShrinkPhaseDue' = now + 200
            \/ /\ ShrinkPhase = "fade"
               /\ ShrinkPhase' = "none"
               /\ now >= ShrinkPhaseDue
               /\ finished'
               /\ heroVisible' /\ heroOpacity' = "" /\ pageVisible']_vars
    /\ [][~LoadStep /\ (heroVisible' # heroVisible \/ heroOpacity' # heroOpacity
                         \/ pageVisible' # pageVisible)
            => ShrinkPhase = "fade" /\ ShrinkPhase' = "none"]_vars

\* C19 witness: an armed shrink phase ran through all its steps in a
\* document in which nothing else was started.
C19_Witness ==
    /\ finished
    /\ seen = "record"
    /\ page = "service"
    /\ heroVisible
    /\ pageVisible
    /\ writes = 0
    /\ nextId = 2
    /\ tasks = {}

\* C20: the panel is visible exactly when debugMode is true; a press of 'd'
\* (no ctrl/meta) changes nothing when the focus is in an element text is
\* typed into, and otherwise inverts debugMode and the panel's visibility (so
\* that two accepted presses restore both).
C20_ShortcutToggles ==
    /\ panelVisible <=> debugMode
    /\ \A el \in KeyTargets :
          (initDone /\ (el.inPanel => panelVisible)) =>
              IF el.text
              THEN ~ENABLED (KeyD(el) /\ (debugMode' # debugMode
                                          \/ panelVisible' # panelVisible))
              ELSE ENABLED (KeyD(el) /\ debugMode' = ~debugMode
                                     /\ panelVisible' = ~panelVisible)

\* C21: when the navigation of an accepted click begins, the slot holds the
\* record that click stored (the service name of its link, the values
\* resolved and the timestamp of the click), whatever clicks, previews and
\* slider changes came in between.
C21_SlotHeldUntilNavigation ==
    [][\A t \in StartTasks :
          (/\ Nav(t.id, Href(t.link)) \notin navigated
           /\ Nav(t.id, Href(t.link)) \in navigated')
          => \E w \in wrote :
                /\ w.id = t.id
                /\ w.data.serviceName = t.link
                /\ w.data.timestamp = t.due - 800
                /\ slot = w.data
                /\ slot' = w.data]_vars

\* ---- claims about the resolver and the rectangles (SpecGeometry) ----
Resolved == geom.stage \in {"data", "stored", "expanded", "placed", "shrinking"}
Stored == geom.stage \in {"stored", "expanded", "placed", "shrinking"}
Expanded == geom.stage \in {"expanded", "placed", "shrinking"}
Placed == geom.stage = "placed"

\* C14: an override of scale, offsetX or offsetY that is absent, empty or
\* not a number resolves to the default of its field (15, 0, 0), and an
\* absent or empty data-color resolves to the accent '#6366f1'.
C14_DefaultsForMissingOverrides ==
    Resolved =>
        /\ geom.link.scale \in {Absent, "", "abc"} => geom.data.scale = 15
        /\ geom.link.offsetX \in {Absent, "", "abc"} => geom.data.offsetX = 0
        /\ geom.link.offsetY \in {Absent, "", "abc"} => geom.data.offsetY = 0
        /\ geom.link.color \in {Absent, ""} => geom.data.fillColor = "#6366f1"

\* C14 witness: a link with a non-numeric scale, an absent offsetX, an empty
\* offsetY and an empty color was resolved.
C14_Witness ==
    /\ geom.stage = "data"
    /\ geom.link.scale = "abc"
    /\ geom.link.offsetX = Absent
    /\ geom.link.offsetY = ""
    /\ geom.link.color = ""
    /\ geom.data.scale = 15

\* C15: whatever the data-scale text, the scale the resolver returns, the
\* scale written to the slot and the scale the expand target is computed
\* with (the side of the target is a positive length) are greater than 0.
C15_ScalePositive ==
    /\ Resolved => geom.data.scale > 0
    /\ Stored => geom.stored.scale > 0
    /\ Expanded => geom.target.width > 0

\* C16: the expand target is the square of side
\* finalSize = max(rect.width, rect.height) * scale with
\* left = vw/2 - finalSize/2 + offsetX/100*vw and
\* top = vh/2 - finalSize/2 + offsetY/100*vh (stated free of quotients);
\* scale 15, offsets 0, a 64x64 source and a 1920x1080 viewport give
\* finalSize 960, left 480, top 60.
C16_ExpandTargetFormula ==
    geom.stage = "expanded" =>
        LET d == geom.data
            w == d.rect.width
            h == d.rect.height
            finalSize == (IF w >= h THEN w ELSE h) * d.scale
        IN /\ geom.target.width = finalSize
           /\ geom.target.height = finalSize
           /\ 200 * geom.target.left =
                  100 * geom.vw - 100 * finalSize + 2 * d.offsetX * geom.vw
           /\ 200 * geom.target.top =
                  100 * geom.vh - 100 * finalSize + 2 * d.offsetY * geom.vh
           /\ (/\ d.scale = 15 /\ d.offsetX = 0 /\ d.offsetY = 0
               /\ w = 64 /\ h = 64 /\ geom.vw = 1920 /\ geom.vh = 1080)
              => geom.target = [left |-> 480, top |-> 60,
                                width |-> 960, height |-> 960]

\* C16 witness: the target was computed for a source wider than high, with
\* an explicit scale and non-zero offsets.
C16_Witness ==
    /\ geom.stage = "expanded"
    /\ geom.link.rect = [width |-> 80, height |-> 48]
    /\ geom.data.scale = 25
    /\ geom.data.offsetX = -30
    /\ geom.data.offsetY = 25
    /\ geom.target.width = 2000

\* C17: with both offsets 0 the expand target and the clone placed on the
\* destination are centred in their viewport, whatever the viewport, the
\* source rectangle and the scale: left + side/2 = vw/2, top + side/2 = vh/2.
C17_CentredWithoutOffsets ==
    /\ (geom.stage = "expanded" /\ geom.data.offsetX = 0 /\ geom.data.offsetY = 0)
          => /\ 2 * geom.target.left + geom.target.width = geom.vw
             /\ 2 * geom.target.top + geom.target.height = geom.vh
    /\ (Placed /\ geom.stored.offsetX = 0 /\ geom.stored.offsetY = 0)
          => /\ 2 * geom.clone.left + geom.clone.width = geom.vw
             /\ 2 * geom.clone.top + geom.clone.height = geom.vh

\* C17 witness: a target computed with offsets 0 for a source higher than
\* wide, in the smaller viewport.
C17_Witness ==
    /\ geom.stage = "expanded"
    /\ geom.data.offsetX = 0
    /\ geom.data.offsetY = 0
    /\ geom.link.rect = [width |-> 48, height |-> 80]
    /\ geom.data.scale = 2
    /\ geom.vw = 800
    /\ geom.target.left = 320

\* C18: the clone of the destination document is the square of side
\* 64 * scale placed by the formula of the expand target in the destination's
\* viewport, for every scale and offsets a click stored.
C18_OverlayAtStoredRectangle ==
    Placed =>
        LET d == geom.stored
            size == 64 * d.scale
        IN /\ geom.clone.width = size
           /\ geom.clone.height = size
           /\ 200 * geom.clone.left =
                  100 * geom.vw - 100 * size + 2 * d.offsetX * geom.vw
           /\ 200 * geom.clone.top =
                  100 * geom.vh - 100 * size + 2 * d.offsetY * geom.vh

\* C18 witness: a clone placed with a stored scale other than the default
\* and a stored offset, in a viewport other than the origin's.
C18_Witness ==
    /\ Placed
    /\ geom.stored.scale = 25
    /\ geom.stored.offsetX = -30
    /\ geom.clone.width = 1600
    /\ geom.vw = 800
    /\ geom.clone.left # geom.target.left

C23_ShrinkStartsWhereClonePlaced ==
    geom.stage = "shrinking" => geom.from = geom.clone

====
